---- MODULE Spec2Model ----
(***************************************************************************)
(* State-machine model of the OpenVR/Vulkan demo: the asset readiness      *)
(* state machine (renderer/model.rs), the per-frame device discovery loop  *)
(* (application.rs) and the stereo frame pipeline (renderer/mod.rs).       *)
(*                                                                         *)
(* One render thread runs Application::run: the startup scene is built,    *)
(* then every iteration waits for poses, runs the discovery pass over the  *)
(* slots and calls Renderer::render.  The GPU is seen only through the     *)
(* zero-timeout wait of Model::loaded and through the results of the       *)
(* fallible calls; both are choices of the environment.                    *)
(***************************************************************************)
EXTENDS Integers, Sequences, FiniteSets, TLC

(* ------------------------------ bounds -------------------------------- *)
\* number of tracked-device slots in a pose array (poses.render.len())
NumSlots == 3
\* number of distinct pose values the pose provider can report
NumPoses == 2
\* number of loop iterations (frames) explored
MaxFrames == 3
\* number of cube clones in the startup scene (SIZE*SIZE*SIZE in the source)
NumCubes == 1
\* number of concurrent callers of loaded() on one Asset
NumCallers == 3
\* largest width and height of a recommended render target size
MaxDim == 2
\* number of image handles the device can give out
MaxImages == 6
\* number of frames explored where every run is followed to its end (LiveSpec)
LiveFrames == 2
\* the number of clones of the cube where the clones are looked at on their own
NumClones == 3

(* ----------------------------- constants ------------------------------ *)
\* tracked_device_index::HMD
HMD == 0

Slots == 0 .. (NumSlots - 1)
Poses == 1 .. NumPoses
\* transform of a startup scene object (a fixed matrix, never a device pose)
StartupTransform == 0
\* owner of a startup scene object (no device identity)
NoDev == -1
Eyes == {"Left", "Right"}
Callers == 1 .. NumCallers
Dims == 1 .. MaxDim
Images == 1 .. MaxImages

\* Option::None of previous_frame_end
NoHandle == [kind |-> "none", id |-> 0]
\* sync::now(device): a no-op sync point, made in frame f (0: Renderer::new)
NowHandle(f) == [kind |-> "now", id |-> f]
\* the FenceSignalFuture of the submission of frame f
FenceHandle(f) == [kind |-> "fence", id |-> f]

VARIABLES
    pc,                  \* position of the render thread
    result,              \* what Application::run returned ("running" while in the loop)
    frame,               \* number of wait_get_poses calls that returned
    poses,               \* poses.render of the current frame
    provider,            \* what the device/model provider holds for each slot this frame
    slot,                \* the loop variable i of the discovery pass
    scene,               \* Vec<(Model, Matrix4)>: [upload, fence, transform, dev, settled]
    devices,             \* HashMap<u32, usize>
    uploads,             \* the joined upload of every Model::new call, by creation order
    previous_frame_end,  \* Renderer.previous_frame_end
    entry,               \* the loop position inside an eye's draw loop
    visited,             \* history: slots whose loop iteration ran this frame
    attempted,           \* history: slots whose resolution was attempted this frame
    phase,               \* history: what each slot was in the frames before this one
    draws,               \* history: entries drawn this frame, per eye
    steps,               \* history: the steps of render taken this frame, in order
    call,                \* history: the last loaded() call
    consumed,            \* history: the handle taken by the chaining step this frame
    callers,             \* the threads inside loaded() of one Asset, and what they did
    eyes,                \* Renderer.eyes: the Eye of each side
    recommended_size,    \* system.recommended_render_target_size()
    context              \* Application.context: the OpenVR context, "up" or "down"

vars == <<pc, result, frame, poses, provider, slot, scene, devices, uploads,
          previous_frame_end, entry, visited, attempted, phase, draws, steps,
          call, consumed, callers, eyes, recommended_size, context>>

\* what the render thread's loop never touches
apart == <<callers, eyes, recommended_size, context>>

NoCall == [entry |-> 0, ret |-> FALSE, waited |-> FALSE, outcome |-> "none"]
NoDraws == [e \in Eyes |-> {}]
NoPoses == [s \in Slots |-> 0]
NoDevices == [s \in {} |-> 0]
NoPhase == [s \in Slots |-> 0]
NoEyes == [e \in {} |-> 0]
\* a thread that is not inside loaded()
IdleCaller == [pc |-> "idle", w |-> "none"]
\* no thread is inside loaded(); writers: the threads that have swapped the
\* cell; settled: the settled values returned so far
NoCallers == [thr |-> [c \in Callers |-> IdleCaller], writers |-> {}, settled |-> {}]

\* what a slot is in a frame: its device class (tracked_device_class) and, for a
\* tracked device, what load_render_model / load_texture have ready for it
SlotStates(s) ==
    IF s = HMD THEN {"HMD"} ELSE {"Invalid", "NoModel", "NoTexture", "Both"}
Providers == {f \in [Slots -> {"HMD", "Invalid", "NoModel", "NoTexture", "Both"}] :
                 \A s \in Slots : f[s] \in SlotStates(s)}
NoProvider == [s \in Slots |-> "Invalid"]

(* ------------------------- renderer/model.rs -------------------------- *)

\* mutant of FenceCheckNew: creation waits and hands out a settled Asset
FenceCheckNewDone == "DoneTrue"

\* FenceCheck::new: the state of a freshly created Asset
FenceCheckNew == "Pending"

\* mutant of WaitOutcomes: the wait has no timeout, it does not return while the
\* upload is in flight
WaitOutcomesBlocking(u) ==
    CASE u = "inflight" -> {}
      [] u = "signaled" -> {"Ok", "Err"}

\* fence.wait(Some(Duration::new(0, 0))) on an upload last seen in state u: an
\* upload in flight when last looked at may have finished since, a finished one
\* stays finished, and any wait can fail (device lost, out of memory)
WaitOutcomes(u) ==
    CASE u = "inflight" -> {"Timeout", "Ok", "Err"}
      [] u = "signaled" -> {"Ok", "Err"}

\* the state of the upload after a wait has observed outcome w
Observed(u, w) == IF w = "Ok" THEN "signaled" ELSE u

\* mutant of Loaded: the error arm forgets to swap the cell
LoadedNoSwapOnErr(f, w) ==
    CASE f = "DoneTrue"  -> [ret |-> TRUE,  fence |-> f, waited |-> FALSE]
      [] f = "DoneFalse" -> [ret |-> FALSE, fence |-> f, waited |-> FALSE]
      [] f = "Pending" ->
           CASE w = "Timeout" -> [ret |-> FALSE, fence |-> "Pending",  waited |-> TRUE]
             [] w = "Ok"      -> [ret |-> TRUE,  fence |-> "DoneTrue", waited |-> TRUE]
             [] OTHER         -> [ret |-> FALSE, fence |-> "Pending",  waited |-> TRUE]

\* mutant of Loaded: a timeout is reported as ready
LoadedTimeoutReady(f, w) ==
    CASE f = "DoneTrue"  -> [ret |-> TRUE,  fence |-> f, waited |-> FALSE]
      [] f = "DoneFalse" -> [ret |-> FALSE, fence |-> f, waited |-> FALSE]
      [] f = "Pending" ->
           CASE w = "Timeout" -> [ret |-> TRUE,  fence |-> "Pending",   waited |-> TRUE]
             [] w = "Ok"      -> [ret |-> TRUE,  fence |-> "DoneTrue",  waited |-> TRUE]
             [] OTHER         -> [ret |-> FALSE, fence |-> "DoneFalse", waited |-> TRUE]

\* mutant of Loaded: the Done arm waits on the fence before it answers
LoadedDoneWaits(f, w) ==
    CASE f = "DoneTrue"  -> [ret |-> TRUE,  fence |-> f, waited |-> TRUE]
      [] f = "DoneFalse" -> [ret |-> FALSE, fence |-> f, waited |-> TRUE]
      [] f = "Pending" ->
           CASE w = "Timeout" -> [ret |-> FALSE, fence |-> "Pending",   waited |-> TRUE]
             [] w = "Ok"      -> [ret |-> TRUE,  fence |-> "DoneTrue",  waited |-> TRUE]
             [] OTHER         -> [ret |-> FALSE, fence |-> "DoneFalse", waited |-> TRUE]

\* mutant of Loaded: a timeout is taken for a failure
LoadedTimeoutFails(f, w) ==
    CASE f = "DoneTrue"  -> [ret |-> TRUE,  fence |-> f, waited |-> FALSE]
      [] f = "DoneFalse" -> [ret |-> FALSE, fence |-> f, waited |-> FALSE]
      [] f = "Pending" ->
           CASE w = "Ok"      -> [ret |-> TRUE,  fence |-> "DoneTrue",  waited |-> TRUE]
             [] OTHER         -> [ret |-> FALSE, fence |-> "DoneFalse", waited |-> TRUE]

\* mutant of Loaded: a failed Asset is polled again
LoadedRetryFailed(f, w) ==
    CASE f = "DoneTrue"  -> [ret |-> TRUE,  fence |-> f, waited |-> FALSE]
      [] OTHER ->
           CASE w = "Timeout" -> [ret |-> FALSE, fence |-> f,           waited |-> TRUE]
             [] w = "Ok"      -> [ret |-> TRUE,  fence |-> "DoneTrue",  waited |-> TRUE]
             [] OTHER         -> [ret |-> FALSE, fence |-> "DoneFalse", waited |-> TRUE]

\* Model::loaded: the value returned and the fence cell afterwards, for the
\* cell state f and the outcome w of the zero-timeout wait (made only when the
\* cell is Pending)
Loaded(f, w) ==
    CASE f = "DoneTrue"  -> [ret |-> TRUE,  fence |-> f, waited |-> FALSE]
      [] f = "DoneFalse" -> [ret |-> FALSE, fence |-> f, waited |-> FALSE]
      [] f = "Pending" ->
           CASE w = "Timeout" -> [ret |-> FALSE, fence |-> "Pending",   waited |-> TRUE]
             [] w = "Ok"      -> [ret |-> TRUE,  fence |-> "DoneTrue",  waited |-> TRUE]
             [] OTHER         -> [ret |-> FALSE, fence |-> "DoneFalse", waited |-> TRUE]

\* the outcomes of Model::new
ModelNewOutcomes == {"Ok", "ModelError"}

\* a Model as stored in the scene, just made on upload u; settled is the history
\* of the first settled value loaded() returned for it
NewEntry(u, t, d) ==
    [upload |-> u, fence |-> FenceCheckNew, transform |-> t, dev |-> d,
     settled |-> "none"]

\* #[derive(Clone)] on Model: the buffers, the image and the set are Arc clones
\* of the same objects; the clone of the ArcSwap is a new cell that starts with
\* the value the cloned cell holds at that moment, so the clone refers to the
\* same joined upload and has a history of its own
ModelClone(m) ==
    [upload |-> m.upload, fence |-> m.fence, transform |-> m.transform,
     dev |-> m.dev, settled |-> "none"]

\* mutant of StoreFence: the cell is shared by the clones of a Model
StoreFenceShared(sc, j, f) ==
    [k \in DOMAIN sc |->
        IF sc[k].upload = sc[j].upload THEN [sc[k] EXCEPT !.fence = f] ELSE sc[k]]

\* self.fence.swap(..) of the Model at position j: the cell of that Model gets
\* the new value (a call that does not swap leaves f as it was)
StoreFence(sc, j, f) == [sc EXCEPT ![j].fence = f]

(* --------------------------- application.rs --------------------------- *)

\* mutant of Return: the error is noted and the loop goes on
ReturnAndGoOn(r) ==
    /\ pc' = "wait_poses"
    /\ result' = r

\* `?` and panics: run is left
Return(r) ==
    /\ pc' = "returned"
    /\ result' = r

\* Application::run before the loop: the cube model, its clones, the scene model
Startup ==
    /\ pc = "startup"
    /\ \E cube \in ModelNewOutcomes, model \in ModelNewOutcomes :
         IF cube # "Ok"
         THEN /\ Return("ModelError")
              /\ UNCHANGED <<scene, uploads>>
         ELSE IF model # "Ok"
         THEN /\ Return("ModelError")
              /\ uploads' = <<"inflight">>
              /\ scene' = [k \in 1 .. NumCubes |->
                              ModelClone(NewEntry(1, StartupTransform, NoDev))]
         ELSE /\ pc' = "wait_poses"
              /\ result' = result
              /\ uploads' = <<"inflight", "inflight">>
              /\ scene' = [k \in 1 .. NumCubes |->
                              ModelClone(NewEntry(1, StartupTransform, NoDev))]
                            \o <<NewEntry(2, StartupTransform, NoDev)>>
    /\ UNCHANGED <<frame, poses, provider, slot, devices, previous_frame_end, entry,
                   visited, attempted, phase, draws, steps, call, consumed>>
    /\ UNCHANGED apart

\* mutant of TrackedClass: only the headset is left out
TrackedClassNotHmd(st) == st # "HMD"

\* the class check of a slot (neither Invalid nor the headset)
TrackedClass(st) == st # "Invalid" /\ st # "HMD"

\* mutant of Known: the lookup never finds the device
KnownNever(dv, d) == FALSE

\* devices.contains_key(&i)
Known(dv, d) == d \in DOMAIN dv

\* scene[*devices.get(&i).unwrap()].1 = mat4(pose)
Refresh(sc, idx, p) == [sc EXCEPT ![idx + 1].transform = p]

\* mutant of DevicesInsert: the index is taken one too low
DevicesInsertOffByOne(dv, d, idx) == (d :> (idx - 1)) @@ dv

\* mutant of DevicesInsert: the mapping is not recorded
DevicesInsertNone(dv, d, idx) == dv

\* devices.insert(i, scene.len())
DevicesInsert(dv, d, idx) == (d :> idx) @@ dv

\* mutant of ScenePush: the entry is put in front
ScenePushFront(sc, e) == <<e>> \o sc

\* scene.push((model, mat4(pose)))
ScenePush(sc, e) == Append(sc, e)

\* what the resolution of an unseen slot gives, for what the provider holds:
\* string_tracked_device_property(i, 1003)?, load_render_model(..)?,
\* diffuse_texture_id().unwrap(), load_texture(..)?, Model::new(..)?
ResolveOutcomes(st) ==
    {"TrackedPropertyError", "RenderModelError"} \cup
    CASE st = "NoModel"   -> {"NoModel"}
      [] st = "NoTexture" -> {"NoTexture", "NoTextureId"}
      [] st = "Both"      -> {"Created", "ModelError"}
      [] OTHER            -> {}

\* let poses = self.compositor.wait_get_poses()?  A device that has an entry had
\* its model and texture loaded: for it only the class can change.
WaitGetPoses ==
    /\ pc = "wait_poses"
    /\ frame < MaxFrames
    /\ \/ /\ \E p \in [Slots -> Poses], pr \in Providers :
               /\ \A d \in DOMAIN devices : pr[d] \in {"Invalid", "Both"}
               /\ poses' = p
               /\ provider' = pr
          /\ frame' = frame + 1
          /\ pc' = "discover"
          /\ result' = result
       \/ /\ Return("CompositorError")
          /\ UNCHANGED <<frame, poses, provider>>
    /\ slot' = 0
    /\ entry' = 0
    /\ visited' = {}
    /\ attempted' = {}
    /\ draws' = NoDraws
    /\ steps' = <<>>
    /\ call' = NoCall
    /\ consumed' = NoHandle
    /\ UNCHANGED <<scene, devices, uploads, previous_frame_end, phase>>
    /\ UNCHANGED apart

\* the end of one iteration of `for i in 0..poses.render.len()`
NextSlot ==
    /\ slot' = slot + 1
    /\ pc' = IF slot + 1 = NumSlots THEN "render" ELSE "discover"
    /\ result' = result
    /\ visited' = visited \cup {slot}

\* `else { break }`: the loop is left, the remaining slots are not visited
BreakLoop ==
    /\ slot' = slot
    /\ pc' = "render"
    /\ result' = result
    /\ visited' = visited \cup {slot}

\* a slot whose class is Invalid or HMD: nothing is done for it
DiscoverSkip ==
    /\ pc = "discover"
    /\ ~TrackedClass(provider[slot])
    /\ NextSlot
    /\ UNCHANGED <<frame, poses, provider, scene, devices, uploads, previous_frame_end,
                   entry, attempted, phase, draws, steps, call, consumed>>
    /\ UNCHANGED apart

\* a known device: its transform is overwritten with this frame's pose
DiscoverRefresh ==
    /\ pc = "discover"
    /\ TrackedClass(provider[slot])
    /\ Known(devices, slot)
    /\ scene' = Refresh(scene, devices[slot], poses[slot])
    /\ NextSlot
    /\ UNCHANGED <<frame, poses, provider, devices, uploads, previous_frame_end,
                   entry, attempted, phase, draws, steps, call, consumed>>
    /\ UNCHANGED apart

\* an unseen device whose model and texture are both there: a Model is built,
\* the mapping recorded and the entry appended
DiscoverCreate ==
    /\ pc = "discover"
    /\ TrackedClass(provider[slot])
    /\ ~Known(devices, slot)
    /\ "Created" \in ResolveOutcomes(provider[slot])
    /\ uploads' = Append(uploads, "inflight")
    /\ devices' = DevicesInsert(devices, slot, Len(scene))
    /\ scene' = ScenePush(scene, NewEntry(Len(uploads) + 1, poses[slot], slot))
    /\ attempted' = attempted \cup {slot}
    /\ NextSlot
    /\ UNCHANGED <<frame, poses, provider, previous_frame_end,
                   entry, phase, draws, steps, call, consumed>>
    /\ UNCHANGED apart

\* an unseen device whose model or texture is not there: `else { break }`
DiscoverBreak ==
    /\ pc = "discover"
    /\ TrackedClass(provider[slot])
    /\ ~Known(devices, slot)
    /\ ResolveOutcomes(provider[slot]) \cap {"NoModel", "NoTexture"} # {}
    /\ attempted' = attempted \cup {slot}
    /\ BreakLoop
    /\ UNCHANGED <<frame, poses, provider, scene, devices, uploads, previous_frame_end,
                   entry, phase, draws, steps, call, consumed>>
    /\ UNCHANGED apart

\* an unseen device whose resolution fails with `?`: run returns the error
DiscoverError ==
    /\ pc = "discover"
    /\ TrackedClass(provider[slot])
    /\ ~Known(devices, slot)
    /\ \E o \in ResolveOutcomes(provider[slot]) \cap
                  {"TrackedPropertyError", "RenderModelError", "ModelError"} :
         Return(o)
    /\ attempted' = attempted \cup {slot}
    /\ visited' = visited \cup {slot}
    /\ UNCHANGED <<frame, poses, provider, slot, scene, devices, uploads,
                   previous_frame_end, entry, phase, draws, steps, call, consumed>>
    /\ UNCHANGED apart

\* an unseen device whose model names no texture: diffuse_texture_id().unwrap()
DiscoverPanic ==
    /\ pc = "discover"
    /\ TrackedClass(provider[slot])
    /\ ~Known(devices, slot)
    /\ "NoTextureId" \in ResolveOutcomes(provider[slot])
    /\ Return("panic")
    /\ attempted' = attempted \cup {slot}
    /\ visited' = visited \cup {slot}
    /\ UNCHANGED <<frame, poses, provider, slot, scene, devices, uploads,
                   previous_frame_end, entry, phase, draws, steps, call, consumed>>
    /\ UNCHANGED apart

\* history: what the discovery pass that has just ended leaves for the next
\* frames.  1: the resolution of the slot was attempted and model or texture
\* was not there; 2: it was 1 and this pass resolved it and made its entry;
\* 0: anything else
NextPhase(ph, pr, att, dv) ==
    [d \in Slots |->
        IF d \in att /\ pr[d] \in {"NoModel", "NoTexture"} THEN 1
        ELSE IF ph[d] = 1 /\ d \in att /\ d \in DOMAIN dv THEN 2
        ELSE 0]

(* -------------------------- renderer/mod.rs --------------------------- *)

\* mutant of FlushHandle: the out-of-date arm stores nothing
FlushHandleNoReset(o, f) ==
    CASE o = "Ok"        -> FenceHandle(f)
      [] OTHER           -> NoHandle

\* mutant of FlushHandle: what is stored is named after the frame before
FlushHandleStale(o, f) ==
    CASE o = "Ok"        -> FenceHandle(f - 1)
      [] o = "OutOfDate" -> NowHandle(f - 1)
      [] OTHER           -> NoHandle

\* mutant of FlushHandle: the out-of-date arm keeps the submission's handle
FlushHandleKeep(o, f) ==
    CASE o = "Ok"        -> FenceHandle(f)
      [] o = "OutOfDate" -> FenceHandle(f)
      [] OTHER           -> NoHandle

\* what the match on then_signal_fence_and_flush() stores in previous_frame_end
\* before render returns Ok, for the flush outcome o of frame f
FlushHandle(o, f) ==
    CASE o = "Ok"        -> FenceHandle(f)
      [] o = "OutOfDate" -> NowHandle(f)
      [] OTHER           -> NoHandle

\* the outcomes of then_signal_fence_and_flush()
FlushOutcomes == {"Ok", "OutOfDate", "Err"}

\* mutant of FlushFatal: every flush error is ignored
FlushFatalNever(o) == FALSE

\* whether the match arm of a flush outcome returns the error
FlushFatal(o) == o \notin {"Ok", "OutOfDate"}

\* mutant of Take: the handle is read but left in place
TakeKeep(h) == h

\* self.previous_frame_end.take()
Take(h) == NoHandle

\* mutant of DrawIf: nothing is ever drawn
DrawIfNever(ret) == FALSE

\* mutant of DrawIf: the readiness check is dropped
DrawIfAlways(ret) == TRUE

\* `if !model.loaded() { continue }`: whether the draw is recorded
DrawIf(ret) == ret

\* render is called with the headset pose and the scene; in it, first
\* cleanup_finished on the previous handle, then a command buffer builder is
\* made and the left eye's render pass begun
RenderBegin ==
    /\ pc = "render"
    /\ IF previous_frame_end = NoHandle
       THEN /\ Return("RenderPanic")
            /\ steps' = steps
            /\ entry' = entry
       ELSE \/ /\ pc' = IF Len(scene) = 0 THEN "end_left" ELSE "left"
               /\ result' = result
               /\ entry' = 1
               /\ steps' = <<"reclaim", "begin_left">>
            \/ /\ Return("RenderError")
               /\ entry' = entry
               /\ steps' = <<"reclaim", "begin_left_err">>
    /\ poses' = [s \in Slots |-> IF s = HMD THEN poses[s] ELSE 0]
    /\ provider' = NoProvider
    /\ phase' = NextPhase(phase, provider, attempted, devices)
    /\ slot' = 0
    /\ visited' = {}
    /\ attempted' = {}
    /\ UNCHANGED <<frame, scene, devices, uploads,
                   previous_frame_end, draws, call, consumed>>
    /\ UNCHANGED apart

\* one iteration of an eye's `for (model, matrix) in scene`: loaded() is called
\* and, when it returns true, a draw is recorded
DrawLoop(eye, here, after) ==
    /\ pc = here
    /\ \E w \in WaitOutcomes(uploads[scene[entry].upload]) :
         LET e == scene[entry]
             r == Loaded(e.fence, w)
             v == IF e.settled = "none" /\ r.waited /\ w # "Timeout"
                  THEN (IF r.ret THEN "true" ELSE "false")
                  ELSE e.settled
         IN /\ scene' = [StoreFence(scene, entry, r.fence) EXCEPT
                            ![entry].settled = v]
            /\ uploads' = IF r.waited
                          THEN [uploads EXCEPT ![e.upload] = Observed(@, w)]
                          ELSE uploads
            /\ call' = [entry |-> entry, ret |-> r.ret, waited |-> r.waited,
                        outcome |-> IF r.waited THEN w ELSE "none"]
            /\ IF DrawIf(r.ret)
               THEN \/ /\ draws' = [draws EXCEPT ![eye] = @ \cup {entry}]
                       /\ pc' = IF entry = Len(scene) THEN after ELSE here
                       /\ entry' = entry + 1
                       /\ result' = result
                       /\ steps' = steps
                    \/ /\ Return("RenderError")
                       /\ steps' = Append(steps, "draw_err")
                       /\ UNCHANGED <<draws, entry>>
               ELSE /\ pc' = IF entry = Len(scene) THEN after ELSE here
                    /\ entry' = entry + 1
                    /\ result' = result
                    /\ draws' = draws
                    /\ steps' = steps
    /\ UNCHANGED <<frame, poses, provider, slot, devices,
                   previous_frame_end, visited, attempted, phase, consumed>>
    /\ UNCHANGED apart

DrawLeft == DrawLoop("Left", "left", "end_left")

DrawRight == DrawLoop("Right", "right", "end_right")

\* the left pass is ended and the right eye's render pass begun
EndLeft ==
    /\ pc = "end_left"
    /\ \/ /\ pc' = IF Len(scene) = 0 THEN "end_right" ELSE "right"
          /\ result' = result
          /\ entry' = 1
          /\ steps' = steps \o <<"end_left", "begin_right">>
       \/ /\ Return("RenderError")
          /\ entry' = entry
          /\ steps' = Append(steps, "end_left_err")
    /\ UNCHANGED <<frame, poses, provider, slot, scene, devices, uploads,
                   previous_frame_end, visited, attempted, phase, draws, call, consumed>>
    /\ UNCHANGED apart

\* the right pass is ended and the command buffer built
EndRight ==
    /\ pc = "end_right"
    /\ \/ /\ pc' = "chain"
          /\ result' = result
          /\ steps' = steps \o <<"end_right", "build">>
       \/ /\ Return("RenderError")
          /\ steps' = Append(steps, "end_right_err")
    /\ UNCHANGED <<frame, poses, provider, slot, scene, devices, uploads, entry,
                   previous_frame_end, visited, attempted, phase, draws, call, consumed>>
    /\ UNCHANGED apart

\* self.previous_frame_end.take().unwrap().then_execute(queue, command_buffer)?
Chain ==
    /\ pc = "chain"
    /\ IF previous_frame_end = NoHandle
       THEN /\ Return("RenderPanic")
            /\ UNCHANGED <<previous_frame_end, consumed, steps>>
       ELSE /\ previous_frame_end' = Take(previous_frame_end)
            /\ consumed' = previous_frame_end
            /\ \/ /\ pc' = "submit"
                  /\ result' = result
                  /\ steps' = Append(steps, "chain")
               \/ /\ Return("RenderError")
                  /\ steps' = Append(steps, "chain_err")
    /\ UNCHANGED <<frame, poses, provider, slot, scene, devices, uploads, entry,
                   visited, attempted, phase, draws, call>>
    /\ UNCHANGED apart

\* compositor.submit(Eye::Left, ..)?; compositor.submit(Eye::Right, ..)?
Submit ==
    /\ pc = "submit"
    /\ \/ /\ pc' = "flush"
          /\ result' = result
          /\ steps' = steps \o <<"submit_left", "submit_right">>
       \/ /\ Return("RenderError")
          /\ steps' = Append(steps, "submit_left_err")
       \/ /\ Return("RenderError")
          /\ steps' = steps \o <<"submit_left", "submit_right_err">>
    /\ UNCHANGED <<frame, poses, provider, slot, scene, devices, uploads, entry,
                   previous_frame_end, visited, attempted, phase, draws, call, consumed>>
    /\ UNCHANGED apart

\* the name of the flush step in the history of the frame
FlushStep(o) ==
    CASE o = "Ok"        -> "flush_ok"
      [] o = "OutOfDate" -> "flush_out_of_date"
      [] OTHER           -> "flush_err"

\* future.then_signal_fence_and_flush() and the match on its result; on Ok and
\* on OutOfDate render returns Ok(()) and the loop of run goes round
Flush ==
    /\ pc = "flush"
    /\ \E o \in FlushOutcomes :
         /\ steps' = Append(steps, FlushStep(o))
         /\ IF FlushFatal(o)
            THEN /\ Return("RenderError")
                 /\ previous_frame_end' = previous_frame_end
            ELSE /\ previous_frame_end' = FlushHandle(o, frame)
                 /\ pc' = "wait_poses"
                 /\ result' = result
    /\ UNCHANGED <<frame, poses, provider, slot, scene, devices, uploads, entry,
                   visited, attempted, phase, draws, call, consumed>>
    /\ UNCHANGED apart

(* ----------------------- leaving Application::run --------------------- *)

\* mutant of NextDrop: the fields are dropped before Drop::drop is run
NextDropFieldsFirst(p) ==
    CASE p = "returned"    -> "drop_fields"
      [] p = "drop_fields" -> "drop_self"
      [] p = "drop_self"   -> "exited"

\* the order in which a returning run releases things: its locals, then
\* Drop::drop of the Application (`self` is dropped last), then the fields
NextDrop(p) ==
    CASE p = "returned"    -> "drop_self"
      [] p = "drop_self"   -> "drop_fields"
      [] p = "drop_fields" -> "exited"

\* run has returned (an error, or a panic unwinds): its locals go out of scope,
\* the scene and the device map with them, before `self` is dropped
ExitRun ==
    /\ pc = "returned"
    /\ pc' = NextDrop(pc)
    /\ scene' = <<>>
    /\ devices' = NoDevices
    /\ uploads' = <<>>
    /\ poses' = NoPoses
    /\ provider' = NoProvider
    /\ slot' = 0
    /\ entry' = 0
    /\ visited' = {}
    /\ attempted' = {}
    /\ phase' = NoPhase
    /\ draws' = NoDraws
    /\ steps' = <<>>
    /\ call' = NoCall
    /\ consumed' = NoHandle
    /\ UNCHANGED <<result, frame, previous_frame_end>>
    /\ UNCHANGED apart

\* Drop for Application: unsafe { self.context.shutdown(); } comes first, with
\* every field of the Application, the renderer among them, still held
ContextShutdown ==
    /\ pc = "drop_self"
    /\ pc' = NextDrop(pc)
    /\ context' = "down"
    /\ UNCHANGED <<result, frame, poses, provider, slot, scene, devices, uploads,
                   previous_frame_end, entry, visited, attempted, phase, draws, steps,
                   call, consumed, callers, eyes, recommended_size>>

\* then the fields are dropped in the order of the struct; the renderer is the
\* last one, and in it the device and the eyes go before previous_frame_end
DropFields ==
    /\ pc = "drop_fields"
    /\ pc' = NextDrop(pc)
    /\ previous_frame_end' = NoHandle
    /\ eyes' = NoEyes
    /\ UNCHANGED <<result, frame, poses, provider, slot, scene, devices, uploads,
                   entry, visited, attempted, phase, draws, steps, call, consumed,
                   callers, recommended_size, context>>

(* --------------------------- renderer/eye.rs -------------------------- *)

IMAGE_FORMAT == "R8G8B8A8Srgb"
DEPTH_FORMAT == "D16Unorm"

\* AttachmentImage::with_usage / AttachmentImage::transient: an image with the
\* native handle id, of the given dimensions and format
AttachmentImage(id, dimensions, format) ==
    [id |-> id, width |-> dimensions[1], height |-> dimensions[2], format |-> format]

\* mutant of EyeNew: the exported handle takes its height for its width
EyeNewSwapped(size, ci, di) ==
    LET dimensions == <<size[1], size[2]>>
        image == AttachmentImage(ci, dimensions, IMAGE_FORMAT)
        depth_image == AttachmentImage(di, dimensions, DEPTH_FORMAT)
    IN [image |-> image,
        depth_image |-> depth_image,
        texture |-> [image |-> image.id, width |-> image.height,
                     height |-> image.width, format |-> image.format],
        frame_buffer |-> <<image.id, depth_image.id>>]

\* Eye::new for the size recommended_size, when the device gives the colour
\* image the handle ci and the depth image the handle di
EyeNew(size, ci, di) ==
    LET dimensions == <<size[1], size[2]>>
        image == AttachmentImage(ci, dimensions, IMAGE_FORMAT)
        depth_image == AttachmentImage(di, dimensions, DEPTH_FORMAT)
    IN [image |-> image,
        depth_image |-> depth_image,
        texture |-> [image |-> image.id, width |-> image.width,
                     height |-> image.height, format |-> image.format],
        frame_buffer |-> <<image.id, depth_image.id>>]

\* the image handles held by the eyes es
LiveImages(es) ==
    UNION {{es[e].image.id, es[e].depth_image.id} : e \in DOMAIN es}

\* the eyes Renderer::new has made when run is entered
RendererEyes(size) ==
    ("Left" :> EyeNew(size, 1, 2)) @@ ("Right" :> EyeNew(size, 3, 4))

\* what is left alone while the eyes are made
EyeFrame ==
    /\ UNCHANGED <<frame, poses, provider, slot, scene, devices, uploads,
                   previous_frame_end, entry, visited, attempted, phase, draws, steps,
                   call, consumed, callers, recommended_size, context>>

\* Eye::new(recommended_size, ..)? for the eye e, for the first time or again.
\* The images of the eye it replaces are released only when the new Eye is
\* stored; an error of an image or of the framebuffer is returned.
EyeCreate(e) ==
    /\ pc = "eyes"
    /\ \/ /\ \E ci \in Images \ LiveImages(eyes) :
               \E di \in Images \ (LiveImages(eyes) \cup {ci}) :
                   eyes' = (e :> EyeNew(recommended_size, ci, di)) @@ eyes
          /\ UNCHANGED <<pc, result>>
       \/ /\ \E err \in {"ImageCreationError", "FramebufferCreationError"} :
               Return(err)
          /\ eyes' = eyes
    /\ EyeFrame

EyeNewLeft == EyeCreate("Left")

EyeNewRight == EyeCreate("Right")

(* ---------------- concurrent callers of Model::loaded ----------------- *)

\* what is left alone while threads call loaded() on the Asset scene[1]
CallerFrame ==
    /\ UNCHANGED <<pc, result, frame, poses, provider, slot, devices,
                   previous_frame_end, entry, visited, attempted, phase, draws, steps,
                   call, consumed, eyes, recommended_size, context>>

\* `match &**self.fence.load()`: the Done arm returns the stored value, the
\* Pending arm goes on to the wait
CallerLoad(c) ==
    /\ pc = "callers"
    /\ callers.thr[c].pc = "idle"
    /\ LET f == scene[1].fence
       IN IF f = "Pending"
          THEN callers' = [callers EXCEPT !.thr[c].pc = "pending"]
          ELSE callers' = [callers EXCEPT
                              !.settled = @ \cup {Loaded(f, "none").ret}]
    /\ UNCHANGED <<scene, uploads>>
    /\ CallerFrame

\* fence.wait(Some(Duration::new(0, 0))): a timeout returns false at once, any
\* other outcome goes on to its swap
CallerWait(c) ==
    /\ pc = "callers"
    /\ callers.thr[c].pc = "pending"
    /\ \E w \in WaitOutcomes(uploads[scene[1].upload]) :
         /\ uploads' = [uploads EXCEPT ![scene[1].upload] = Observed(@, w)]
         /\ callers' = IF w = "Timeout"
                       THEN [callers EXCEPT !.thr[c] = IdleCaller]
                       ELSE [callers EXCEPT !.thr[c] = [pc |-> "swap", w |-> w]]
    /\ UNCHANGED scene
    /\ CallerFrame

\* self.fence.swap(Arc::new(FenceCheck::Done(..))) and the return of the arm
CallerSwap(c) ==
    /\ pc = "callers"
    /\ callers.thr[c].pc = "swap"
    /\ LET r == Loaded("Pending", callers.thr[c].w)
       IN /\ scene' = [scene EXCEPT ![1].fence = r.fence]
          /\ callers' = [callers EXCEPT !.thr[c] = IdleCaller,
                                        !.writers = @ \cup {c},
                                        !.settled = @ \cup {r.ret}]
    /\ UNCHANGED uploads
    /\ CallerFrame

Load == \E c \in Callers : CallerLoad(c)

Wait == \E c \in Callers : CallerWait(c)

Swap == \E c \in Callers : CallerSwap(c)

(* ------------------- the clones of the cube Model --------------------- *)

\* what is left alone while the cube is cloned and the clones are polled
CloneFrame ==
    /\ UNCHANGED <<result, frame, poses, provider, slot, devices,
                   previous_frame_end, visited, attempted, phase, draws, steps,
                   consumed>>
    /\ UNCHANGED apart

\* `cube.clone()` in the map over 0 .. SIZE*SIZE*SIZE: the cube itself stays a
\* local of run, nothing calls loaded() on it, so every clone is made of the
\* Model as Model::new returned it
CubeClone ==
    /\ pc = "cloning"
    /\ Len(scene) < NumClones
    /\ scene' = ScenePush(scene, ModelClone(NewEntry(1, StartupTransform, NoDev)))
    /\ UNCHANGED <<pc, uploads, entry, call>>
    /\ CloneFrame

\* the scene model is pushed behind the cubes and the first pass begins
SceneModel ==
    /\ pc = "cloning"
    /\ Len(scene) = NumClones
    /\ scene' = ScenePush(scene, NewEntry(2, StartupTransform, NoDev))
    /\ uploads' = Append(uploads, "inflight")
    /\ pc' = "poll_left"
    /\ entry' = 1
    /\ UNCHANGED call
    /\ CloneFrame

\* `if model.loaded()` of one iteration of a pass over the scene
ClonePass(here, after) ==
    /\ pc = here
    /\ \E w \in WaitOutcomes(uploads[scene[entry].upload]) :
         LET e == scene[entry]
             r == Loaded(e.fence, w)
             v == IF e.settled = "none" /\ r.waited /\ w # "Timeout"
                  THEN (IF r.ret THEN "true" ELSE "false")
                  ELSE e.settled
         IN /\ scene' = [StoreFence(scene, entry, r.fence) EXCEPT
                            ![entry].settled = v]
            /\ uploads' = IF r.waited
                          THEN [uploads EXCEPT ![e.upload] = Observed(@, w)]
                          ELSE uploads
            /\ call' = [entry |-> entry, ret |-> r.ret, waited |-> r.waited,
                        outcome |-> IF r.waited THEN w ELSE "none"]
    /\ pc' = IF entry = Len(scene) THEN after ELSE here
    /\ entry' = IF entry = Len(scene) THEN 1 ELSE entry + 1
    /\ CloneFrame

PollLeft == ClonePass("poll_left", "poll_right")

PollRight == ClonePass("poll_right", "poll_left")

(* ------------------------------ main.rs ------------------------------- *)

\* the uploads main starts: the vertex buffer and the texture
MainUploads == 1 .. 2

\* the joined uploads among the things a future is ordered after (the frames'
\* submissions are numbered from 1)
Assets == 0

\* vertex_future.join(image_promise): a future that is ordered after both uploads
AssetsPromise == [kind |-> "assets", id |-> 0, after |-> {Assets}]

\* previous.then_execute(queue, command_buffer) of frame f: the commands are
\* ordered after everything the previous handle h is ordered after
ThenExecute(h, f) == [kind |-> "exec", id |-> f, after |-> h.after \cup {f}]

\* the match on then_signal_fence_and_flush() of the chained future c: the fence
\* future of the frame, or sync::now(device), which is ordered after nothing
MainFlushHandle(o, c, f) ==
    IF o = "Ok"
    THEN [kind |-> "fence", id |-> f, after |-> c.after]
    ELSE [kind |-> "now", id |-> f, after |-> {}]

\* the future c has been flushed: the uploads it carries are given to the queue
Submitted(up, c) ==
    [u \in DOMAIN up |->
        IF Assets \in c.after /\ up[u] = "recorded" THEN "inflight" ELSE up[u]]

\* what may have become of the uploads when the program looks again: one given
\* to the queue may have finished
Progress(up) ==
    {n \in [DOMAIN up -> {"recorded", "inflight", "signaled"}] :
        \A u \in DOMAIN up : n[u] = up[u] \/ (up[u] = "inflight" /\ n[u] = "signaled")}

\* the chained future of a frame whose flush failed goes out of scope: the source
\* does nothing with it, and what releasing it does to the uploads it carries is
\* up to the library (left as they are, given to the queue, or waited for)
Released(up, c) ==
    {n \in [DOMAIN up -> {"recorded", "inflight", "signaled"}] :
        \A u \in DOMAIN up :
           \/ n[u] = up[u]
           \/ Assets \in c.after /\ up[u] # "signaled" /\ n[u] \in {"inflight", "signaled"}}

\* what main's loop never touches
MainFrame ==
    /\ UNCHANGED <<poses, provider, slot, scene, devices, entry, visited,
                   attempted, phase, call>>
    /\ UNCHANGED apart

\* compositor.wait_get_poses()? and cleanup_finished()
MainWaitGetPoses ==
    /\ pc = "main_wait"
    /\ frame < MaxFrames
    /\ \/ /\ Return("CompositorError")
          /\ UNCHANGED <<frame, uploads, draws, steps>>
       \/ /\ pc' = "main_record"
          /\ result' = result
          /\ frame' = frame + 1
          /\ uploads' \in Progress(uploads)
          /\ draws' = NoDraws
          /\ steps' = <<>>
    /\ UNCHANGED <<previous_frame_end, consumed>>
    /\ MainFrame

\* the command buffer of the frame: a draw of the vertex buffer in each eye's
\* pass, with no condition
MainRecord ==
    /\ pc = "main_record"
    /\ \/ /\ Return("CommandBufferError")
          /\ steps' = Append(steps, "draw_err")
          /\ UNCHANGED draws
       \/ /\ pc' = "main_chain"
          /\ result' = result
          /\ draws' = [e \in Eyes |-> {1}]
          /\ steps' = steps \o <<"begin_left", "end_left", "begin_right", "end_right">>
    /\ UNCHANGED <<frame, uploads, previous_frame_end, consumed>>
    /\ MainFrame

\* previous_frame_end.take().unwrap().then_execute(queue, command_buffer)?
MainChain ==
    /\ pc = "main_chain"
    /\ previous_frame_end.kind # "none"
    /\ previous_frame_end' = [kind |-> "none", id |-> 0, after |-> {}]
    /\ \/ /\ Return("ExecError")
          /\ steps' = Append(steps, "chain_err")
          /\ \E n \in Released(uploads, previous_frame_end) : uploads' = n
          /\ UNCHANGED consumed
       \/ /\ pc' = "main_submit"
          /\ result' = result
          /\ consumed' = ThenExecute(previous_frame_end, frame)
          /\ steps' = Append(steps, "chain")
          /\ UNCHANGED uploads
    /\ UNCHANGED <<frame, draws>>
    /\ MainFrame

\* compositor.submit(Eye::Left, ..)?; compositor.submit(Eye::Right, ..)?
MainSubmit ==
    /\ pc = "main_submit"
    /\ \/ /\ Return("CompositorError")
          /\ steps' = Append(steps, "submit_err")
          /\ \E n \in Released(uploads, consumed) : uploads' = n
       \/ /\ pc' = "main_flush"
          /\ result' = result
          /\ steps' = Append(steps, "submit")
          /\ UNCHANGED uploads
    /\ UNCHANGED <<frame, draws, previous_frame_end, consumed>>
    /\ MainFrame

\* future.then_signal_fence_and_flush() and the match on its result
MainFlush ==
    /\ pc = "main_flush"
    /\ \E o \in FlushOutcomes :
         /\ IF o = "Ok"
            THEN uploads' = Submitted(uploads, consumed)
            ELSE \E n \in Released(uploads, consumed) : uploads' = n
         /\ IF FlushFatal(o)
            THEN /\ Return("FlushError")
                 /\ UNCHANGED previous_frame_end
            ELSE /\ pc' = "main_wait"
                 /\ result' = result
                 /\ previous_frame_end' = MainFlushHandle(o, consumed, frame)
         /\ steps' = Append(steps, IF o = "Ok" THEN "flush_ok"
                                   ELSE IF o = "OutOfDate" THEN "flush_ood"
                                   ELSE "flush_err")
    /\ UNCHANGED <<frame, draws, consumed>>
    /\ MainFrame

(* --------------------------- specification ---------------------------- *)

\* the state when Application::new has returned and run is entered
Init ==
    /\ pc = "startup"
    /\ result = "running"
    /\ frame = 0
    /\ poses = NoPoses
    /\ provider = NoProvider
    /\ slot = 0
    /\ scene = <<>>
    /\ devices = NoDevices
    /\ uploads = <<>>
    /\ previous_frame_end = NowHandle(0)
    /\ entry = 0
    /\ visited = {}
    /\ attempted = {}
    /\ phase = NoPhase
    /\ draws = NoDraws
    /\ steps = <<>>
    /\ call = NoCall
    /\ consumed = NoHandle
    /\ callers = NoCallers
    /\ recommended_size = <<MaxDim, MaxDim>>
    /\ eyes = RendererEyes(recommended_size)
    /\ context = "up"

Next ==
    \/ Startup
    \/ WaitGetPoses
    \/ DiscoverSkip
    \/ DiscoverRefresh
    \/ DiscoverCreate
    \/ DiscoverBreak
    \/ DiscoverError
    \/ DiscoverPanic
    \/ RenderBegin
    \/ DrawLeft
    \/ EndLeft
    \/ DrawRight
    \/ EndRight
    \/ Chain
    \/ Submit
    \/ Flush
    \/ ExitRun
    \/ ContextShutdown
    \/ DropFields

Spec == Init /\ [][Next]_vars

\* the steps of the program for its first LiveFrames frames
LiveNext ==
    \/ Startup
    \/ (frame < LiveFrames /\ WaitGetPoses)
    \/ DiscoverSkip
    \/ DiscoverRefresh
    \/ DiscoverCreate
    \/ DiscoverBreak
    \/ DiscoverError
    \/ DiscoverPanic
    \/ RenderBegin
    \/ DrawLeft
    \/ EndLeft
    \/ DrawRight
    \/ EndRight
    \/ Chain
    \/ Submit
    \/ Flush
    \/ ExitRun
    \/ ContextShutdown
    \/ DropFields

\* the render thread keeps running: it is the only thread, every call it makes
\* returns, and nothing else has to be scheduled for it to take its next step
LiveSpec == Init /\ [][LiveNext]_vars /\ WF_vars(LiveNext)

\* the rest of the state while one part of the program is looked at on its own
Aside ==
    /\ result = "running"
    /\ frame = 0
    /\ poses = NoPoses
    /\ provider = NoProvider
    /\ slot = 0
    /\ devices = NoDevices
    /\ previous_frame_end = NowHandle(0)
    /\ entry = 0
    /\ visited = {}
    /\ attempted = {}
    /\ phase = NoPhase
    /\ draws = NoDraws
    /\ steps = <<>>
    /\ call = NoCall
    /\ consumed = NoHandle
    /\ callers = NoCallers
    /\ context = "up"

\* one Asset has just been made by Model::new and is shared by the callers
InitLoaded ==
    /\ pc = "callers"
    /\ scene = <<NewEntry(1, StartupTransform, NoDev)>>
    /\ uploads = <<"inflight">>
    /\ recommended_size = <<MaxDim, MaxDim>>
    /\ eyes = RendererEyes(recommended_size)
    /\ Aside

NextLoaded ==
    \/ Load
    \/ Wait
    \/ Swap

LoadedSpec == InitLoaded /\ [][NextLoaded]_vars

\* Renderer::new is about to make the eyes, for any recommended size
InitEyes ==
    /\ pc = "eyes"
    /\ scene = <<>>
    /\ uploads = <<>>
    /\ recommended_size \in Dims \X Dims
    /\ eyes = NoEyes
    /\ Aside

NextEyes ==
    \/ EyeNewLeft
    \/ EyeNewRight

EyeSpec == InitEyes /\ [][NextEyes]_vars

\* run has made the cube Model and is about to clone it
InitClones ==
    /\ pc = "cloning"
    /\ scene = <<>>
    /\ uploads = <<"inflight">>
    /\ recommended_size = <<MaxDim, MaxDim>>
    /\ eyes = RendererEyes(recommended_size)
    /\ Aside

NextClones ==
    \/ CubeClone
    \/ SceneModel
    \/ PollLeft
    \/ PollRight

CloneSpec == InitClones /\ [][NextClones]_vars

\* main has started the two uploads and is about to enter its loop
InitMain ==
    /\ pc = "main_wait"
    /\ result = "running"
    /\ frame = 0
    /\ uploads = [u \in MainUploads |-> "recorded"]
    /\ previous_frame_end = AssetsPromise
    /\ consumed = [kind |-> "none", id |-> 0, after |-> {}]
    /\ draws = NoDraws
    /\ steps = <<>>
    /\ scene = <<>>
    /\ poses = NoPoses
    /\ provider = NoProvider
    /\ slot = 0
    /\ devices = NoDevices
    /\ entry = 0
    /\ visited = {}
    /\ attempted = {}
    /\ phase = NoPhase
    /\ call = NoCall
    /\ callers = NoCallers
    /\ context = "up"
    /\ recommended_size = <<MaxDim, MaxDim>>
    /\ eyes = RendererEyes(recommended_size)

NextMain ==
    \/ MainWaitGetPoses
    \/ MainRecord
    \/ MainChain
    \/ MainSubmit
    \/ MainFlush

MainSpec == InitMain /\ [][NextMain]_vars

(* ------------------------------ claims -------------------------------- *)

Last(seq) == seq[Len(seq)]
EntriesOf(d) == {j \in DOMAIN scene : scene[j].dev = d}
\* render has returned Ok(()) for the current frame
RenderReturnedOk == pc = "wait_poses" /\ frame >= 1
\* render has returned an error for the current frame
RenderReturnedErr == pc = "returned" /\ result = "RenderError"
\* the discovery pass of the current frame has just ended
AfterDiscovery == pc = "render"
\* no entry of the scene has a ready Asset
NoneReady == \A j \in DOMAIN scene : scene[j].fence # "DoneTrue"
\* the steps of render up to the flush, in the order of the source
StepsToFlush ==
    <<"reclaim", "begin_left", "end_left", "begin_right", "end_right", "build",
      "chain", "submit_left", "submit_right">>
\* any step of the loop of run
FrameStep ==
    \/ WaitGetPoses \/ DiscoverSkip \/ DiscoverRefresh \/ DiscoverCreate
    \/ DiscoverBreak \/ DiscoverError \/ DiscoverPanic \/ RenderBegin
    \/ DrawLeft \/ EndLeft \/ DrawRight \/ EndRight \/ Chain \/ Submit \/ Flush

\* C1: loaded() is monotonic.  Once a call on an Asset has returned a settled
\* value (true after a successful wait, false after a wait failure other than
\* timeout), every later call on that Asset returns that value, whatever the
\* later waits would give; and a fence cell that is Done never changes again.
C1_LoadedMonotonic ==
    /\ [](call.entry # 0 =>
            LET e == scene[call.entry]
            IN e.settled # "none" => call.ret = (e.settled = "true"))
    /\ [][\A j \in DOMAIN scene \cap DOMAIN scene' :
            scene[j].fence # "Pending" => scene'[j].fence = scene[j].fence]_vars

\* a call on an Asset that had settled to true before: it returns without a wait
C1_Witness ==
    /\ call.entry # 0
    /\ ~call.waited
    /\ call.ret
    /\ scene[call.entry].settled = "true"

\* C2: after the discovery pass of a frame, the transform of every device that
\* has an entry and is tracked in the frame is the pose reported for it in that
\* frame, whatever the other slots resolve to.
C2_TransformIsLatestPose ==
    AfterDiscovery =>
        \A d \in DOMAIN devices :
            TrackedClass(provider[d]) => scene[devices[d] + 1].transform = poses[d]

C4_OutOfDateRecovers ==
    (steps # <<>> /\ Last(steps) = "flush_out_of_date") =>
        /\ pc = "wait_poses"
        /\ result = "running"
        /\ previous_frame_end = NowHandle(frame)
        /\ previous_frame_end # consumed
        /\ previous_frame_end.kind # "fence"
        /\ (frame < MaxFrames => ENABLED WaitGetPoses)

\* the frame after an out-of-date flush has chained its commands after the
\* fresh sync point
C4_Witness ==
    /\ pc = "submit"
    /\ frame >= 2
    /\ consumed = NowHandle(frame - 1)

\* the chaining, the hand-off or the flush of the current frame has failed
SubmissionFailed ==
    /\ steps # <<>>
    /\ Last(steps) \in {"chain_err", "submit_left_err", "submit_right_err", "flush_err"}

\* C5: when the submission of a frame fails with an error that is not
\* out-of-date, render returns the error, run returns it, and no step of the
\* loop (wait for poses, discovery, recording, submission) can be taken again.
C5_FatalErrorStops ==
    SubmissionFailed =>
        /\ pc = "returned"
        /\ result = "RenderError"
        /\ ~ENABLED FrameStep

\* the flush of the second frame has failed with a fatal error
C5_Witness ==
    /\ frame = 2
    /\ steps # <<>>
    /\ Last(steps) = "flush_err"
    /\ result = "RenderError"

\* the eye whose pass is being recorded
CurrentEye == IF \E k \in DOMAIN steps : steps[k] = "begin_right" THEN "Right" ELSE "Left"

\* C6: a draw is recorded for an entry, in either eye's pass, only if the fence
\* of its Asset is Done(true); an entry whose Asset is Pending or Done(false)
\* when polled is not drawn in that pass and no draw error comes of it.
C6_DrawOnlyWhenReady ==
    /\ \A e \in Eyes : \A j \in draws[e] : scene[j].fence = "DoneTrue"
    /\ (call.entry # 0 /\ scene[call.entry].fence # "DoneTrue") =>
          /\ ~call.ret
          /\ call.entry \notin draws[CurrentEye]
          /\ Last(steps) # "draw_err"

\* the left pass has drawn one entry and skipped another
C6_Witness ==
    /\ pc = "end_left"
    /\ draws["Left"] # {}
    /\ draws["Left"] # DOMAIN scene

\* C7: every device identity has at most one entry: no identity owns two
\* entries of the scene, and the index the map holds for it is that entry.
C7_OneEntryPerDevice ==
    \A d \in Slots :
        /\ Cardinality(EntriesOf(d)) <= 1
        /\ d \in DOMAIN devices => EntriesOf(d) = {devices[d] + 1}
        /\ d \notin DOMAIN devices => EntriesOf(d) = {}

\* a device that got its entry in an earlier frame is met again by a later
\* pass, with its model and texture there
C7_Witness ==
    /\ AfterDiscovery
    /\ frame >= 2
    /\ \E d \in visited \cap DOMAIN devices :
         provider[d] = "Both" /\ d \notin attempted

\* C8: a frame in which no entry is ready records no draw for either eye and
\* cannot fail in a draw; when render returns Ok for it, both passes were begun
\* and ended, the commands were chained after the previous handle and handed
\* off, and a new handle is stored.
C8_EmptyFrame ==
    NoneReady =>
        /\ draws = NoDraws
        /\ (steps # <<>> => Last(steps) # "draw_err")
        /\ RenderReturnedOk =>
              /\ Len(steps) = Len(StepsToFlush) + 1
              /\ SubSeq(steps, 1, Len(StepsToFlush)) = StepsToFlush
              /\ Last(steps) \in {"flush_ok", "flush_out_of_date"}
              /\ consumed # NoHandle
              /\ consumed.id = frame - 1
              /\ previous_frame_end # NoHandle
              /\ previous_frame_end.id = frame

\* render has returned Ok for a frame in which no entry was ready
C8_Witness ==
    /\ RenderReturnedOk
    /\ NoneReady
    /\ Len(scene) > 0

\* C9: a slot without a resolvable model in one frame has no entry after it;
\* when the next frame resolves it to a (mesh, texture) pair it has exactly one
\* entry after that frame, with its index recorded; when the frame after that
\* reports a new pose for it, it still has exactly one entry and the transform
\* is that pose.
C9_ThreeFrames ==
    AfterDiscovery =>
        \A d \in Slots :
            /\ provider[d] \in {"NoModel", "NoTexture"} =>
                  d \notin DOMAIN devices /\ EntriesOf(d) = {}
            /\ (phase[d] = 1 /\ d \in attempted /\ provider[d] = "Both") =>
                  /\ d \in DOMAIN devices
                  /\ EntriesOf(d) = {devices[d] + 1}
            /\ (phase[d] = 2 /\ TrackedClass(provider[d])) =>
                  /\ d \in DOMAIN devices
                  /\ EntriesOf(d) = {devices[d] + 1}
                  /\ scene[devices[d] + 1].transform = poses[d]

\* C10: a tracked unseen slot whose model or texture is not there stays
\* unmapped and gets no entry, the pass raises no error for it and the loop
\* keeps running, and its resolution is attempted again in the next frame.
C10_UnresolvedRetried ==
    AfterDiscovery =>
        /\ result = "running"
        /\ \A d \in Slots :
            /\ provider[d] \in {"NoModel", "NoTexture"} =>
                  d \notin DOMAIN devices /\ EntriesOf(d) = {}
            /\ (phase[d] = 1 /\ TrackedClass(provider[d])) => d \in attempted

\* C11: the discovery pass handles every tracked slot of the frame: when the
\* pass has ended, every tracked slot had its iteration, every tracked slot
\* that has an entry carries this frame's pose, and every tracked slot whose
\* model and texture are there has an entry, whatever the other slots did.
C11_EveryTrackedSlotHandled ==
    AfterDiscovery =>
        \A d \in Slots :
            TrackedClass(provider[d]) =>
                /\ d \in visited
                /\ d \in DOMAIN devices => scene[devices[d] + 1].transform = poses[d]
                /\ provider[d] = "Both" => d \in DOMAIN devices

\* the classes the discovery pass leaves alone
UntrackedClasses == {"Invalid", "HMD"}

\* C12: in a frame where the class of a slot is Invalid or HMD, the pass adds
\* no mapping and no entry for that slot, and leaves every transform as it was
\* when the slot is the one being looked at: an entry is appended, a mapping
\* recorded or a transform overwritten only for the slot of the current
\* iteration, and only when its class is neither Invalid nor HMD.
C12_UntrackedNeverInserted ==
    [][pc = "discover" =>
         /\ \A d \in Slots :
              provider[d] \in UntrackedClasses =>
                  /\ (d \in DOMAIN devices') = (d \in DOMAIN devices)
                  /\ {j \in DOMAIN scene' : scene'[j].dev = d} = EntriesOf(d)
         /\ (scene' # scene \/ devices' # devices) =>
                provider[slot] \notin UntrackedClasses
         /\ \A j \in DOMAIN scene :
              scene'[j].transform # scene[j].transform =>
                  /\ scene[j].dev = slot
                  /\ scene'[j].transform = poses[slot]]_vars

\* a device that has an entry is reported Invalid in a later frame with another
\* pose: its iteration ran and the transform is still the old one
C12_Witness ==
    /\ AfterDiscovery
    /\ \E d \in DOMAIN devices \cap visited :
         /\ provider[d] = "Invalid"
         /\ scene[devices[d] + 1].transform # poses[d]

\* C13: the scene is append-only while the loop runs: its length never goes
\* down, a new entry comes at the end, the position, the Asset and the owner of
\* an entry never change, and a recorded mapping is never changed or removed.
C13_AppendOnly ==
    [][pc \notin {"startup", "returned"} =>
         /\ Len(scene') >= Len(scene)
         /\ Len(scene') <= Len(scene) + 1
         /\ \A j \in DOMAIN scene :
              /\ scene'[j].upload = scene[j].upload
              /\ scene'[j].dev = scene[j].dev
         /\ \A d \in DOMAIN devices :
              /\ d \in DOMAIN devices'
              /\ devices'[d] = devices[d]]_vars

\* two devices have got their entries behind the startup objects
C13_Witness ==
    /\ Cardinality(DOMAIN devices) = 2
    /\ Len(scene) = NumCubes + 3
    /\ frame >= 2
    /\ pc = "wait_poses"

\* C14: when the zero-timeout wait of a Pending Asset fails with something
\* other than a timeout, the cell becomes Done(false); that call and every later
\* call return false, the later ones without a wait, and the entry is not drawn
\* in that frame or in any later one.
C14_FailedNeverRetried ==
    /\ [](/\ \A j \in DOMAIN scene :
               scene[j].settled = "false" =>
                   /\ scene[j].fence = "DoneFalse"
                   /\ \A e \in Eyes : j \notin draws[e]
          /\ (call.entry # 0 /\ call.outcome = "Err") =>
                 /\ ~call.ret
                 /\ scene[call.entry].fence = "DoneFalse"
                 /\ scene[call.entry].settled = "false")
    /\ [][(pc \in {"left", "right"} /\ scene[entry].settled = "false") =>
             /\ ~call'.waited
             /\ ~call'.ret
             /\ draws' = draws
             /\ scene'[entry].fence = "DoneFalse"]_vars

\* an Asset whose wait has failed is polled again in a later frame: the call
\* returns false without a wait
C14_Witness ==
    /\ frame >= 2
    /\ call.entry # 0
    /\ ~call.waited
    /\ ~call.ret
    /\ scene[call.entry].settled = "false"

\* C15: the loop never blocks on an upload.  Under LiveSpec (the render thread
\* keeps taking its steps) every frame whose poses were read comes to its end:
\* render returns Ok and the loop is back at the wait for poses, or a fatal
\* error has made run return; this holds whatever the zero-timeout waits give,
\* so also when every upload stays in flight for ever.  And inside a draw loop
\* the poll of an entry can always be taken.
C15_FrameCompletes ==
    /\ (pc = "discover") ~> (pc = "wait_poses" \/ pc = "returned")
    /\ [](pc \in {"left", "right"} => ENABLED (DrawLeft \/ DrawRight))

\* a frame after the first has been completed with every upload still in
\* flight and every Asset, a device's among them, still Pending
C15_Witness ==
    /\ pc = "wait_poses"
    /\ frame >= 2
    /\ DOMAIN devices # {}
    /\ Len(steps) = Len(StepsToFlush) + 1
    /\ \A u \in DOMAIN uploads : uploads[u] = "inflight"
    /\ \A j \in DOMAIN scene : scene[j].fence = "Pending"

\* C16: on every way out of run, the work the GPU still has in flight is
\* drained before the compositor context, the device and the images are
\* released.  The source has no wait-idle; the one thing that could stand for a
\* drain of the last frame is the release of its completion handle, so: when
\* the compositor context has been shut down, no handle of a submission is
\* still held.
C16_DrainedBeforeRelease ==
    pc = "drop_fields" => previous_frame_end.kind # "fence"

\* C17: concurrent callers of loaded() on one Asset see a consistent state: the
\* cell is written by one caller only, and no two calls are returned different
\* settled values.
C17_ConsistentCallers ==
    /\ Cardinality(callers.writers) <= 1
    /\ Cardinality(callers.settled) <= 1

\* C18: Model::new does not wait.  Every entry that comes into the scene
\* starts with its cell Pending and its joined upload not looked at, and a cell
\* changes only in a loaded() call on that entry whose zero-timeout wait came
\* back with something other than a timeout.
C18_CreatedPending ==
    [][/\ \A j \in DOMAIN scene' \ DOMAIN scene :
            /\ scene'[j].fence = "Pending"
            /\ scene'[j].settled = "none"
            /\ uploads'[scene'[j].upload] = "inflight"
       /\ \A j \in DOMAIN scene \cap DOMAIN scene' :
            scene'[j].fence # scene[j].fence =>
                /\ scene[j].fence = "Pending"
                /\ pc \in {"left", "right"}
                /\ entry = j
                /\ call'.entry = j
                /\ call'.waited
                /\ call'.outcome \in {"Ok", "Err"}]_vars

\* the Asset of a discovered device, made Pending by the discovery pass, has
\* been settled by a later loaded() call
C18_Witness ==
    \E d \in DOMAIN devices :
        /\ scene[devices[d] + 1].fence = "DoneTrue"
        /\ call.entry = devices[d] + 1
        /\ call.waited

\* C19: a failure of Model::new is returned as an error and not retried: run
\* returns it and no step of the loop follows; no Asset, entry or mapping has
\* been made for the failed call (every upload belongs to an entry, every
\* entry behind the startup objects to a mapping, and the slot whose Model::new
\* failed has neither).
C19_ModelNewErrorFatal ==
    result = "ModelError" =>
        /\ pc \in {"returned", "drop_self", "drop_fields", "exited"}
        /\ ~ENABLED FrameStep
        /\ pc = "returned" =>
              IF frame = 0
              THEN /\ devices = NoDevices
                   /\ Len(scene) \in {0, NumCubes}
                   /\ Len(uploads) = (IF scene = <<>> THEN 0 ELSE 1)
              ELSE /\ slot \notin DOMAIN devices
                   /\ EntriesOf(slot) = {}
                   /\ Len(scene) = NumCubes + 1 + Cardinality(DOMAIN devices)
                   /\ Len(uploads) = 2 + Cardinality(DOMAIN devices)

\* Model::new has failed in the discovery pass of a later frame, with the entry
\* of another device already in the scene
C19_Witness ==
    /\ pc = "returned"
    /\ result = "ModelError"
    /\ frame >= 2
    /\ provider[slot] = "Both"
    /\ DOMAIN devices # {}

\* C20: every Eye has a colour and a depth image of the recommended size, and
\* an exported handle with the width, height and format of its own colour
\* image, which it names; two Eyes made at one size have handles of equal
\* width, height and format that name different images; and making an Eye, for
\* the first time or again, leaves the handle of the other Eye as it was.
C20_EyeTargets ==
    /\ [](/\ \A e \in DOMAIN eyes :
               LET y == eyes[e]
               IN /\ <<y.image.width, y.image.height>> = recommended_size
                  /\ <<y.depth_image.width, y.depth_image.height>> = recommended_size
                  /\ y.texture.width = y.image.width
                  /\ y.texture.height = y.image.height
                  /\ y.texture.format = y.image.format
                  /\ y.texture.image = y.image.id
          /\ \A a \in DOMAIN eyes, b \in DOMAIN eyes :
               a # b =>
                  /\ eyes[a].texture.width = eyes[b].texture.width
                  /\ eyes[a].texture.height = eyes[b].texture.height
                  /\ eyes[a].texture.format = eyes[b].texture.format
                  /\ eyes[a].texture.image # eyes[b].texture.image
                  /\ eyes[a].texture.image # eyes[b].depth_image.id)
    /\ [][\A b \in DOMAIN eyes \cap DOMAIN eyes' :
            (\E a \in DOMAIN eyes' \ {b} :
                 a \notin DOMAIN eyes \/ eyes'[a] # eyes[a]) =>
                eyes'[b].texture = eyes[b].texture]_vars

\* both Eyes exist, at a size that is not square, and the images of the left
\* one are not the first the device gave out
C20_Witness ==
    /\ pc = "eyes"
    /\ DOMAIN eyes = Eyes
    /\ recommended_size[1] # recommended_size[2]
    /\ eyes["Left"].image.id > eyes["Right"].depth_image.id

\* the steps of render that end it with an error
ErrorSteps ==
    {"begin_left_err", "draw_err", "end_left_err", "end_right_err", "chain_err",
     "submit_left_err", "submit_right_err", "flush_err"}

\* the positions of the render thread inside render after the chaining step
AfterChain == {"submit", "flush"}

\* C21: within a frame the steps come in the order reclaim, left pass, right
\* pass, chain, hand-off of the left and the right texture, flush; draws are
\* recorded for the left eye only inside the left pass and for the right eye
\* only inside the right pass; there is never more than one completion handle
\* (the stored one, or the one the chaining step has taken), and the handle a
\* frame takes is the one the frame before stored.
C21_FrameOrder ==
    /\ [](/\ Len(steps) <= Len(StepsToFlush) + 1
          /\ \A k \in DOMAIN steps :
               \/ k <= Len(StepsToFlush) /\ steps[k] = StepsToFlush[k]
               \/ k = Len(StepsToFlush) + 1 /\ steps[k] \in {"flush_ok", "flush_out_of_date"}
               \/ k = Len(steps) /\ steps[k] \in ErrorSteps
          /\ (pc \in AfterChain => previous_frame_end = NoHandle /\ consumed # NoHandle)
          /\ (consumed # NoHandle => consumed.id = frame - 1)
          /\ (previous_frame_end # NoHandle =>
                previous_frame_end.id \in {frame - 1, frame})
          /\ (pc = "chain" /\ previous_frame_end # NoHandle =>
                previous_frame_end.id = frame - 1)
          /\ (RenderReturnedOk => previous_frame_end.id = frame))
    /\ [][/\ draws'["Left"] # draws["Left"] => pc = "left" \/ draws' = NoDraws
          /\ draws'["Right"] # draws["Right"] => pc = "right" \/ draws' = NoDraws
          /\ (pc = "chain" /\ pc' = "submit") =>
                consumed' = previous_frame_end /\ previous_frame_end' = NoHandle
          /\ previous_frame_end' # previous_frame_end =>
                pc \in {"chain", "flush", "drop_fields"}]_vars

\* the second frame has taken the fence handle the first one stored, drawn in
\* both passes and stored its own
C21_Witness ==
    /\ RenderReturnedOk
    /\ frame = 2
    /\ consumed = FenceHandle(1)
    /\ previous_frame_end = FenceHandle(2)
    /\ draws["Left"] # {}
    /\ draws["Right"] # {}

\* C22: the discovery pass of an iteration is over before render records a
\* draw: when render is entered no draw of this frame exists, the pose it is
\* given is this frame's headset pose, and the transform it will read for every
\* device that has an entry and is tracked in this frame is the pose reported
\* for it in this frame.
C22_DiscoveryBeforeDraw ==
    AfterDiscovery =>
        /\ draws = NoDraws
        /\ steps = <<>>
        /\ poses[HMD] \in Poses
        /\ \A j \in DOMAIN scene :
             (scene[j].dev # NoDev /\ TrackedClass(provider[scene[j].dev])) =>
                 scene[j].transform = poses[scene[j].dev]

\* C23: when the cell is Done(v), loaded() returns v, makes no wait and leaves
\* the cell and the upload as they are.
C23_DoneNoWait ==
    [][(pc \in {"left", "right"} /\ scene[entry].fence # "Pending") =>
         /\ call'.entry = entry
         /\ ~call'.waited
         /\ call'.outcome = "none"
         /\ call'.ret = (scene[entry].fence = "DoneTrue")
         /\ scene'[entry].fence = scene[entry].fence
         /\ uploads' = uploads]_vars

\* the right pass polls an entry the left pass of the same frame has drawn: the
\* call returns true and makes no wait
C23_Witness ==
    /\ CurrentEye = "Right"
    /\ call.entry \in draws["Left"]
    /\ call.entry \in draws["Right"]
    /\ ~call.waited
    /\ call.ret

\* C24: when the zero-timeout wait of a Pending Asset times out, loaded()
\* returns false, the cell stays Pending and the entry is not drawn in that
\* pass; the next call on the Asset waits again, and that wait can succeed.
C24_TimeoutStaysPending ==
    /\ [](call.outcome = "Timeout" =>
            /\ ~call.ret
            /\ scene[call.entry].fence = "Pending"
            /\ scene[call.entry].settled = "none"
            /\ call.entry \notin draws[CurrentEye]
            /\ Last(steps) # "draw_err")
    /\ [][(pc \in {"left", "right"} /\ scene[entry].fence = "Pending") =>
            call'.entry = entry /\ call'.waited]_vars

\* an entry the left pass found not ready (its wait timed out) is drawn by the
\* right pass of the same frame: the later wait succeeded
C24_Witness ==
    /\ pc = "end_right"
    /\ \E j \in draws["Right"] \ draws["Left"] : scene[j].fence = "DoneTrue"

\* the positions of a run that has returned and releases what it holds
Leaving == {"returned", "drop_self", "drop_fields", "exited"}

\* C25: when the Application is dropped the OpenVR context is shut down before
\* the renderer and what it holds (device, queues, eye images, handle) are
\* released: the context goes down only on the way out, while the eyes are
\* still there, and the eyes are released only with the context down.
C25_ShutdownBeforeRelease ==
    /\ [](/\ context = "down" => pc \in Leaving
          /\ pc \in {"returned", "drop_self"} => context = "up" /\ eyes # NoEyes
          /\ eyes = NoEyes => context = "down"
          /\ pc = "exited" =>
                context = "down" /\ eyes = NoEyes /\ previous_frame_end = NoHandle)
    /\ [][/\ (eyes # NoEyes /\ eyes' = NoEyes) => context = "down"
          /\ (context = "up" /\ context' = "down") => eyes' = eyes /\ eyes # NoEyes]_vars

\* a run that a render error ended has released everything
C25_Witness ==
    /\ pc = "exited"
    /\ result = "RenderError"
    /\ frame >= 1
    /\ context = "down"
    /\ eyes = NoEyes

\* C26: within one render call the left pass and the right pass draw the same
\* set of entries.
C26_SameSetBothEyes ==
    pc = "end_right" => draws["Left"] = draws["Right"]

\* the number of startup scene objects: the cube clones and the scene model
StartupObjects == NumCubes + 1

\* C27: the device map is injective, every index in it is a position of the
\* scene behind the startup objects and names the entry of that device, and
\* the transform of a startup object is never overwritten.
C27_DevicesInjective ==
    /\ [](/\ \A a \in DOMAIN devices, b \in DOMAIN devices :
               a # b => devices[a] # devices[b]
          /\ \A d \in DOMAIN devices :
               /\ devices[d] + 1 \in DOMAIN scene
               /\ devices[d] >= StartupObjects
               /\ scene[devices[d] + 1].dev = d)
    /\ [][\A j \in DOMAIN scene \cap DOMAIN scene' :
            /\ scene[j].dev = NoDev => scene'[j].transform = scene[j].transform
            /\ (scene'[j].transform # scene[j].transform) =>
                   scene[j].dev = slot /\ scene'[j].transform = poses[slot]]_vars

\* two devices have entries and a later pass has refreshed both with new poses
C27_Witness ==
    /\ AfterDiscovery
    /\ frame >= 2
    /\ Cardinality(DOMAIN devices) = 2
    /\ DOMAIN devices \subseteq visited
    /\ attempted = {}
    /\ \A d \in DOMAIN devices : provider[d] = "Both"

\* C28: at the end of every discovery pass the length of the scene is the
\* number of startup objects plus the number of devices in the map.
C28_SceneLength ==
    AfterDiscovery => Len(scene) = StartupObjects + Cardinality(DOMAIN devices)

\* a pass of the last frame has made an entry, with another device's entry
\* already there
C28_Witness ==
    /\ AfterDiscovery
    /\ frame = MaxFrames
    /\ attempted \cap DOMAIN devices # {}
    /\ DOMAIN devices \ attempted # {}

\* the positions of render up to the chaining step
BeforeChain == {"render", "left", "end_left", "right", "end_right", "chain"}

\* C29: render is never entered with previous_frame_end empty: at its entry and
\* up to the chaining step the handle is there, so neither unwrap panics; a
\* render call that returns an error is the last one.
C29_UnwrapNeverFails ==
    /\ result # "RenderPanic"
    /\ pc \in BeforeChain => previous_frame_end # NoHandle
    /\ (previous_frame_end = NoHandle /\ pc \notin AfterChain) =>
           pc \in Leaving /\ ~ENABLED RenderBegin

\* the last frame is at its chaining step after an out-of-date flush of the
\* frame before
C29_Witness ==
    /\ pc = "chain"
    /\ frame = MaxFrames
    /\ previous_frame_end = NowHandle(frame - 1)

\* the entries whose Asset is ready
ReadyEntries == {j \in DOMAIN scene : scene[j].fence = "DoneTrue"}

\* C30: once loaded() has returned true for an entry, the entry is drawn in
\* both passes of every later frame that is recorded.  Every poll that returns
\* true records the draw of its entry (or render returns the error of that
\* draw); a pass polls every entry, so when the left pass is over it has drawn
\* exactly the ready entries, and so has the right pass when it is over, which
\* has drawn whatever the left pass drew; and under LiveSpec every render call
\* that is entered comes to its chaining step or returns an error.  The poll
\* that finds an upload complete is such a poll: its entry is drawn from then on.
C30_ReadyIsDrawn ==
    /\ (pc = "render") ~> (pc = "chain" \/ pc = "returned")
    /\ [](/\ pc = "end_left" => draws["Left"] = ReadyEntries
          /\ pc \in {"end_right", "chain"} =>
                /\ draws["Right"] = ReadyEntries
                /\ draws["Left"] \subseteq draws["Right"])
    /\ [][(pc \in {"left", "right"} /\ call'.ret) =>
            \/ entry \in draws'[IF pc = "left" THEN "Left" ELSE "Right"]
            \/ pc' = "returned" /\ Last(steps') = "draw_err"]_vars

\* an entry made ready in the first frame is drawn in both passes of the second
C30_Witness ==
    /\ pc = "chain"
    /\ frame = 2
    /\ \E d \in DOMAIN devices :
         /\ devices[d] + 1 \in draws["Left"]
         /\ devices[d] + 1 \in draws["Right"]
         /\ d \notin attempted

\* the clones of the cube: the entries made on the cube's upload
CubeClones == {j \in DOMAIN scene : scene[j].upload = 1}

\* C31: the clones of the cube, made while it is Pending, are all on the cube's
\* one upload and start Pending, yet each has its own cell: a step changes the
\* cell of a clone only when it is loaded() called on that very clone, with a
\* wait that did not time out, and the new value is what that wait reported;
\* the cells of all other Models are left as they were.
C31_ClonesOwnCell ==
    /\ [](pc = "cloning" => \A j \in DOMAIN scene :
                                /\ j \in CubeClones
                                /\ scene[j].fence = "Pending")
    /\ [](Cardinality(CubeClones) <= NumClones)
    /\ [][\A j \in DOMAIN scene :
            (j \in DOMAIN scene' /\ scene'[j].fence # scene[j].fence) =>
               /\ pc \in {"poll_left", "poll_right"}
               /\ j = entry
               /\ call'.entry = j
               /\ call'.waited
               /\ call'.outcome \in {"Ok", "Err"}
               /\ scene[j].fence = "Pending"
               /\ scene'[j].fence =
                     IF call'.outcome = "Ok" THEN "DoneTrue" ELSE "DoneFalse"]_vars

\* one clone has settled through its own poll, which saw the upload finished,
\* and another clone of the same upload is still Pending
C31_Witness ==
    /\ pc \in {"poll_left", "poll_right"}
    /\ Cardinality(CubeClones) = NumClones
    /\ call.entry = 1
    /\ call.outcome = "Ok"
    /\ scene[1].fence = "DoneTrue"
    /\ scene[2].fence = "Pending"
    /\ scene[1].upload = scene[2].upload
    /\ uploads[scene[2].upload] = "signaled"

\* the uploads are complete
UploadsComplete == \A u \in DOMAIN uploads : uploads[u] = "signaled"

====
